---- MODULE Spec2Model ----
(***************************************************************************)
(* Model of the numerical core of RSDiX-CLIP, src/models/clip/model_utils.py: *)
(* sinkhorn, compute_similarities, compute_teacher_targets,                *)
(* compute_mse_similarities and compute_accuracy.                          *)
(*                                                                         *)
(* Numbers.  A tensor entry is an extended rational <<n, d>>:              *)
(*   d > 0   the finite value n/d in lowest terms,                         *)
(*   <<1,0>> +Inf,  <<-1,0>> -Inf,  <<0,0>> NaN,                           *)
(* with the IEEE-754 rules for the special values (x/0 = Inf for x > 0,    *)
(* 0/0 = Inf/Inf = Inf*0 = Inf-Inf = NaN, NaN absorbs).  Finite arithmetic *)
(* is exact: rounding of finite results is not modelled, and the sign of   *)
(* zero is not modelled (every divisor in the modelled code is >= 0).      *)
(*                                                                         *)
(* Units.  Costs, similarities and remove_diag are counted in units of     *)
(* ln 2 (an embedding entry in units of sqrt(ln 2)), so that               *)
(* torch.exp(-cost/eps) of a cost c and eps with c/eps an integer k is the *)
(* exact power 2^(-k); float32 gives 0 below 2^-150 and Inf above 2^128.   *)
(* At those two thresholds the outcome of the code depends on the rounding *)
(* of the quotient, so the model gives exp no value between 2^-151 and     *)
(* 2^-149 and between 2^127 and 2^129, and draws no input there.           *)
(***************************************************************************)
EXTENDS Integers, Sequences, FiniteSets, TLC

VARIABLES
    pc,          \* position: "idle", inside sinkhorn ("row", "col", "ret"), inside
                 \* compute_mse ("move", "reduce"), "done", "error"
    fn,          \* the function called
    args,        \* its arguments
    q,           \* sinkhorn: the matrix being balanced
    r_prob,      \* sinkhorn: the target row marginal
    c_prob,      \* sinkhorn: the target column marginal
    iter,        \* sinkhorn: iterations completed
    mse_tensor,  \* compute_mse_similarities: the stacked MSE values
    st_sims,     \* compute_mse: the four similarity tensors, each with its device
    result       \* what the call returned or raised

vars == <<pc, fn, args, q, r_prob, c_prob, iter, mse_tensor, st_sims, result>>

(***************************************************************************)
(* Bounds of the model.                                                    *)
(***************************************************************************)
MaxDim == 2
MaxCells == 4
MaxIter == 2
MaxMarginal == 1
MaxEmbDim == 2
MaxTeacherEmbDim == 1
MaxLogitDim == 3
MaxMseElems == 2

(***************************************************************************)
(* Extended rational arithmetic (torch float tensors).                     *)
(***************************************************************************)
Abs(x) == IF x < 0 THEN -x ELSE x

Sgn(x) == IF x > 0 THEN 1 ELSE IF x < 0 THEN -1 ELSE 0

RECURSIVE GCD(_, _)
GCD(a, b) == IF b = 0 THEN a ELSE GCD(b, a % b)

Norm(n, d) ==
    IF d = 0 THEN <<Sgn(n), 0>>
    ELSE LET g == GCD(Abs(n), Abs(d))
             s == Sgn(d)
         IN  <<(s * n) \div g, (s * d) \div g>>

NaN == <<0, 0>>
PosInf == <<1, 0>>
NegInf == <<-1, 0>>
Rat(n) == <<n, 1>>
Zero == Rat(0)
One == Rat(1)

IsNaN(x) == x = NaN
IsInf(x) == x[2] = 0 /\ x[1] # 0
IsFinite(x) == x[2] > 0

Add(a, b) ==
    IF a[2] = 0 /\ b[2] = 0 THEN IF a = b THEN a ELSE NaN
    ELSE IF a[2] = 0 THEN a
    ELSE IF b[2] = 0 THEN b
    ELSE LET g == GCD(a[2], b[2])
         IN  Norm(a[1] * (b[2] \div g) + b[1] * (a[2] \div g), (a[2] \div g) * b[2])

Neg(a) == <<-a[1], a[2]>>

Sub(a, b) == Add(a, Neg(b))

Mul(a, b) ==
    IF a[2] = 0 \/ b[2] = 0 THEN <<Sgn(a[1]) * Sgn(b[1]), 0>>
    ELSE LET g1 == GCD(Abs(a[1]), b[2])
             g2 == GCD(Abs(b[1]), a[2])
         IN  Norm((a[1] \div g1) * (b[1] \div g2), (a[2] \div g2) * (b[2] \div g1))

Recip(a) == IF a[1] < 0 THEN <<-a[2], -a[1]>> ELSE <<a[2], a[1]>>

Div(a, b) == Mul(a, Recip(b))

\* the float order: -Inf below every finite value, +Inf above; every
\* comparison with NaN is false
Less(a, b) ==
    /\ ~IsNaN(a)
    /\ ~IsNaN(b)
    /\ IF IsFinite(a) /\ IsFinite(b) THEN a[1] * b[2] < b[1] * a[2]
       ELSE IF IsFinite(a) THEN b = PosInf
       ELSE IF IsFinite(b) THEN a = NegInf
       ELSE a = NegInf /\ b = PosInf

Leq(a, b) ==
    /\ ~IsNaN(a)
    /\ ~IsNaN(b)
    /\ IF IsFinite(a) /\ IsFinite(b) THEN a[1] * b[2] <= b[1] * a[2]
       ELSE IF IsFinite(a) THEN b = PosInf
       ELSE IF IsFinite(b) THEN a = NegInf
       ELSE a = NegInf \/ b = PosInf

RECURSIVE Pow2(_)
Pow2(k) == IF k = 0 THEN 1 ELSE 2 * Pow2(k - 1)

\* torch.exp on a float32 tensor entry, the argument counted in units of ln 2:
\* Inf from 2^129 on, 0 from 2^-151 down, and the exact power 2^k of an
\* integer argument k from -149 to 127.  Exp has no value elsewhere: around
\* the two thresholds of float32 (2^128 and 2^-150) the result of the code
\* depends on how the quotient -cost/eps was rounded, which exact arithmetic
\* cannot tell, and the exponential of a fractional argument is irrational.
Exp(x) ==
    CASE IsNaN(x) -> NaN
      [] x = PosInf -> PosInf
      [] x = NegInf -> Zero
      [] IsFinite(x) /\ x[1] >= 129 * x[2] -> PosInf
      [] IsFinite(x) /\ x[1] <= -151 * x[2] -> Zero
      [] IsFinite(x) /\ x[2] = 1 /\ x[1] >= 0 /\ x[1] <= 127 -> <<Pow2(x[1]), 1>>
      [] IsFinite(x) /\ x[2] = 1 /\ x[1] < 0 /\ x[1] >= -149 -> <<1, Pow2(-x[1])>>

(***************************************************************************)
(* Vectors and matrices: a matrix is a sequence of rows.                   *)
(***************************************************************************)
\* the vector F(1), ..., F(n) and the r x c matrix of the F(i, j), as explicit tuples
Vec(n, F(_)) == SubSeq([i \in 1..n |-> F(i)], 1, n)
Mat(r, c, F(_, _)) == Vec(r, LAMBDA i : Vec(c, LAMBDA j : F(i, j)))

RECURSIVE SumSeq(_)
SumSeq(s) == IF Len(s) = 0 THEN Zero ELSE Add(SumSeq(SubSeq(s, 1, Len(s) - 1)), s[Len(s)])

NRows(m) == Len(m)
NCols(m) == Len(m[1])

Row(m, i) == m[i]
Col(m, j) == Vec(NRows(m), LAMBDA i : m[i][j])

\* x.sum(dim=-1, keepdim=True) of one matrix
RowSums(m) == Vec(NRows(m), LAMBDA i : SumSeq(Row(m, i)))

\* x.sum(dim=-2, keepdim=True) of one matrix
ColSums(m) == Vec(NCols(m), LAMBDA j : SumSeq(Col(m, j)))

\* x.sum(dim=[-2, -1], keepdim=True) of one matrix
TotalSum(m) == SumSeq(RowSums(m))

MapMat(m, F(_)) == Mat(NRows(m), NCols(m), LAMBDA i, j : F(m[i][j]))

\* torch.isnan(x).any() or torch.isinf(x).any()
_has_nan_or_inf(x) == \E i \in 1..Len(x) : IsNaN(x[i]) \/ IsInf(x[i])

(***************************************************************************)
(* sinkhorn (model_utils.py:17-50).  The modelled tensor is one (M, N)     *)
(* matrix; rank = 2 is the plain 2-D input, rank = 3 the batched input of  *)
(* shape (1, M, N) with the same matrix as its single slice.  A marginal   *)
(* that is not supplied (None) is the empty sequence.                      *)
(***************************************************************************)
None == <<>>

\* line 25: q = torch.exp(-cost_mat / eps)
ExpCost(cost, eps) == MapMat(cost, LAMBDA c : Exp(Div(Neg(c), eps)))

\* line 26: q = q / q.sum(dim=[-2, -1], keepdim=True).  The total and the
\* quotients are exact: every finite value the model can hold lies far inside
\* the range of float32, so a total overflowing to Inf or a quotient
\* underflowing to 0 (entries of exp more than 2^150 apart) is outside the
\* model; no property below depends on line 26 staying in range.
GlobalNormalize(m) == LET t == TotalSum(m) IN MapMat(m, LAMBDA x : Div(x, t))

\* lines 31, 38: prob / prob.sum(dim=-1, keepdim=True)
NormalizeMarginal(p) == LET s == SumSeq(p) IN Vec(Len(p), LAMBDA i : Div(p[i], s))

\* lines 34, 41: the scalar 1 / m (1 / n), broadcast along the axis
UniformMarginal(k) == Vec(k, LAMBDA i : <<1, k>>)

\* lines 29-41: the target marginal of one axis of length k
TargetMarginal(p, k) == IF p # None THEN NormalizeMarginal(p) ELSE UniformMarginal(k)

\* mutant of MarginalAssertFails: the check looks for Inf only
MarginalAssertOnlyInf(p) ==
    p # None /\ \E i \in 1..Len(p) : IsInf(NormalizeMarginal(p)[i])

\* lines 32, 39: assert not _has_nan_or_inf(prob), only for a supplied marginal
MarginalAssertFails(p) == p # None /\ _has_nan_or_inf(NormalizeMarginal(p))

\* mutant of RowStep: a row whose sum is zero is left as it is
RowStepGuarded(m, r) ==
    LET s == RowSums(m)
    IN  Mat(NRows(m), NCols(m), LAMBDA i, j :
            IF s[i] = Zero THEN m[i][j] ELSE Mul(Div(m[i][j], s[i]), r[i]))

\* lines 45-46: q /= q.sum(dim=-1, keepdim=True); q *= r_prob
RowStep(m, r) ==
    LET s == RowSums(m)
    IN  Mat(NRows(m), NCols(m), LAMBDA i, j : Mul(Div(m[i][j], s[i]), r[i]))

\* mutant of ColStep: the columns are normalized but not scaled by c_prob
ColStepUnscaled(m, c) ==
    LET s == ColSums(m)
    IN  Mat(NRows(m), NCols(m), LAMBDA i, j : Div(m[i][j], s[j]))

\* lines 48-49: q /= q.sum(dim=-2, keepdim=True); q *= c_prob
ColStep(m, c) ==
    LET s == ColSums(m)
    IN  Mat(NRows(m), NCols(m), LAMBDA i, j : Mul(Div(m[i][j], s[j]), c[j]))

\* q / q.sum(dim=-1, keepdim=True)
DivByRowSums(m) ==
    LET s == RowSums(m)
    IN  Mat(NRows(m), NCols(m), LAMBDA i, j : Div(m[i][j], s[i]))

\* q / q.sum(dim=-2, keepdim=True)
DivByColSums(m) ==
    LET s == ColSums(m)
    IN  Mat(NRows(m), NCols(m), LAMBDA i, j : Div(m[i][j], s[j]))

\* mutants of FinalNormalize: the sum taken over axis -2, or over axis -1, whatever the rank
FinalNormalizeAxisMinus2(m, rank) == DivByColSums(m)
FinalNormalizeAxisMinus1(m, rank) == DivByRowSums(m)

\* line 50: return q / q.sum(dim=1, keepdim=True).  Axis 1 counted from the
\* front is the last axis of a 2-D tensor and axis -2 of a 3-D tensor.
FinalNormalize(m, rank) == IF rank = 2 THEN DivByRowSums(m) ELSE DivByColSums(m)

\* lines 43-49: niter iterations of row step then column step
RECURSIVE SinkhornLoop(_, _, _, _)
SinkhornLoop(m, r, c, k) ==
    IF k = 0 THEN m ELSE SinkhornLoop(ColStep(RowStep(m, r), c), r, c, k - 1)

\* sinkhorn(cost_mat, eps, niter) with r_prob = c_prob = None, as a function
sinkhorn(cost, eps, niter, rank) ==
    FinalNormalize(
        SinkhornLoop(GlobalNormalize(ExpCost(cost, eps)),
                     UniformMarginal(NRows(cost)), UniformMarginal(NCols(cost)), niter),
        rank)

(***************************************************************************)
(* compute_similarities (model_utils.py:53-70).                            *)
(***************************************************************************)
\* x.t()
Transpose(m) == Mat(NCols(m), NRows(m), LAMBDA j, i : m[i][j])

\* torch.matmul(a, b) of two matrices
MatMul(a, b) ==
    Mat(NRows(a), NCols(b), LAMBDA i, j :
        SumSeq(Vec(NCols(a), LAMBDA k : Mul(a[i][k], b[k][j]))))

\* mutant of compute_similarities: sim_ti computed like sim_it
compute_similarities_same_it(i_emb, t_emb) ==
    [sim_ii |-> MatMul(i_emb, Transpose(i_emb)),
     sim_tt |-> MatMul(t_emb, Transpose(t_emb)),
     sim_it |-> MatMul(i_emb, Transpose(t_emb)),
     sim_ti |-> MatMul(i_emb, Transpose(t_emb))]

compute_similarities(i_emb, t_emb) ==
    [sim_ii |-> MatMul(i_emb, Transpose(i_emb)),
     sim_tt |-> MatMul(t_emb, Transpose(t_emb)),
     sim_it |-> MatMul(i_emb, Transpose(t_emb)),
     sim_ti |-> MatMul(t_emb, Transpose(i_emb))]

(***************************************************************************)
(* compute_teacher_targets (model_utils.py:73-120).                        *)
(***************************************************************************)
MatAdd(a, b) == Mat(NRows(a), NCols(a), LAMBDA i, j : Add(a[i][j], b[i][j]))
MatSub(a, b) == Mat(NRows(a), NCols(a), LAMBDA i, j : Sub(a[i][j], b[i][j]))
MatScale(m, c) == MapMat(m, LAMBDA x : Mul(x, c))
MatNeg(m) == MapMat(m, Neg)

\* torch.eye(m, n)
Eye(m, n) == Mat(m, n, LAMBDA i, j : IF i = j THEN One ELSE Zero)

\* line 94: torch.eye(*sim_ii.shape) * remove_diag * 1e2
DiagMask(sim, remove_diag) ==
    MatScale(MatScale(Eye(NRows(sim), NCols(sim)), remove_diag), Rat(100))

\* mutant of RowNormalize: the sum taken over dim 0
RowNormalizeDim0(m) == DivByColSums(m)

\* lines 112-113, 117-118: x /= x.sum(dim=1, keepdim=True) on a 2-D tensor
RowNormalize(m) == DivByRowSums(m)

\* lines 107-118: both branches row-normalize; the sigmoid branch then maps x to x*2 - 1
FinalizeTarget(m, sigmoid_target) ==
    IF sigmoid_target
    THEN MapMat(RowNormalize(m), LAMBDA x : Sub(Mul(x, Rat(2)), One))
    ELSE RowNormalize(m)

\* lines 92-105: the two Sinkhorn outputs, before the finalization
TeacherSinkhorn(i_emb, t_emb, ii_coeff, tt_coeff, sinkhorn_lambda, sinkhorn_iter, remove_diag) ==
    LET sims == compute_similarities(i_emb, t_emb)
        diag == DiagMask(sims.sim_ii, remove_diag)
        sim_ii == MatScale(MatSub(sims.sim_ii, diag), ii_coeff)
        sim_tt == MatScale(MatSub(sims.sim_tt, diag), tt_coeff)
        images_cost_mat == MatNeg(MatAdd(MatAdd(sim_ii, sim_tt), sims.sim_it))
        text_cost_mat == MatNeg(MatAdd(MatAdd(sim_ii, sim_tt), sims.sim_ti))
    IN  <<sinkhorn(images_cost_mat, sinkhorn_lambda, sinkhorn_iter, 2),
          sinkhorn(text_cost_mat, sinkhorn_lambda, sinkhorn_iter, 2)>>

compute_teacher_targets(i_emb, t_emb, ii_coeff, tt_coeff, sinkhorn_lambda, sinkhorn_iter, remove_diag, sigmoid_target) ==
    LET sk == TeacherSinkhorn(i_emb, t_emb, ii_coeff, tt_coeff, sinkhorn_lambda,
                              sinkhorn_iter, remove_diag)
    IN  <<FinalizeTarget(sk[1], sigmoid_target), FinalizeTarget(sk[2], sigmoid_target)>>

(***************************************************************************)
(* compute_mse_similarities (model_utils.py:147-183).                      *)
(***************************************************************************)
\* mutant of REDUCTIONS: "add" is missing
REDUCTIONS_without_add == {"mean", "average", "avg", "sum", "none"}

REDUCTIONS == {"mean", "average", "avg", "sum", "add", "none"}

\* all entries of a matrix, row after row
RECURSIVE Flatten(_)
Flatten(m) == IF Len(m) = 0 THEN <<>> ELSE Flatten(SubSeq(m, 1, Len(m) - 1)) \o m[Len(m)]

\* torch.nn.MSELoss()(a, b): the mean over all entries of (a - b)^2
mse_loss(a, b) ==
    LET d == Flatten(MatSub(a, b))
    IN  Div(SumSeq(Vec(Len(d), LAMBDA k : Mul(d[k], d[k]))), Rat(Len(d)))

\* mutant of StackMse: the first two MSE values stacked in the other order
StackMseSwapped(image_image_similarities, image_text_similarities, text_text_similarities_clip, text_text_similarities_st) ==
    <<mse_loss(image_text_similarities, text_text_similarities_st),
      mse_loss(image_image_similarities, text_text_similarities_st),
      mse_loss(text_text_similarities_clip, text_text_similarities_st)>>

\* lines 173-176: torch.stack([ii_mse, it_mse, tt_mse])
StackMse(image_image_similarities, image_text_similarities, text_text_similarities_clip, text_text_similarities_st) ==
    <<mse_loss(image_image_similarities, text_text_similarities_st),
      mse_loss(image_text_similarities, text_text_similarities_st),
      mse_loss(text_text_similarities_clip, text_text_similarities_st)>>

\* torch.mean(x) of a vector
TorchMean(x) == Div(SumSeq(x), Rat(Len(x)))

\* mutant of ReduceMse: the "sum"/"add" branch sums
ReduceMseSumming(mse, reduction) ==
    LET red == IF reduction = "average" THEN "mean" ELSE reduction
    IN  IF red = "mean" \/ red = "average" \/ red = "avg" THEN TorchMean(mse)
        ELSE IF red = "sum" \/ red = "add" THEN SumSeq(mse)
        ELSE mse

\* lines 169-170, 178-183: the reduction of the stacked vector
ReduceMse(mse, reduction) ==
    LET red == IF reduction = "average" THEN "mean" ELSE reduction
    IN  IF red = "mean" \/ red = "average" \/ red = "avg" THEN TorchMean(mse)
        ELSE IF red = "sum" \/ red = "add" THEN TorchMean(mse)
        ELSE mse

(***************************************************************************)
(* compute_st_similarities and compute_mse (model_utils.py:123-206).  A    *)
(* tensor is its data with the device it resides on.  The embeddings are   *)
(* drawn with a rational Euclidean norm, so that the cosine is exact.      *)
(***************************************************************************)
Tensor(data, device) == [data |-> data, device |-> device]

\* x.to(device): the same data on the given device
To(x, device) == Tensor(x.data, device)

\* the square root of a perfect square
ISqrt(n) == CHOOSE r \in 0..n : r * r = n

SumOfSquares(v) == SumSeq(Vec(Len(v), LAMBDA k : Mul(v[k], v[k])))

HasRationalNorm(v) ==
    LET s == SumOfSquares(v)
    IN  (\E r \in 0..s[1] : r * r = s[1]) /\ (\E r \in 0..s[2] : r * r = s[2])

\* the Euclidean norm of one row
L2Norm(v) == LET s == SumOfSquares(v) IN <<ISqrt(s[1]), ISqrt(s[2])>>

\* torch.nn.functional.normalize(x, p=2, dim=1): every row divided by
\* max(norm, 1e-12); a zero row stays zero
normalize_embeddings(x) ==
    Mat(NRows(x), NCols(x), LAMBDA i, j :
        IF L2Norm(x[i]) = Zero THEN x[i][j] ELSE Div(x[i][j], L2Norm(x[i])))

\* sentence_transformers.util.cos_sim(a, b) on the data of two tensors
cos_sim(a, b) == MatMul(normalize_embeddings(a), Transpose(normalize_embeddings(b)))

\* lines 139-142: torch refuses a product of tensors on different devices
StSimilaritiesFail(clip_image_embeddings, clip_text_embeddings) ==
    clip_image_embeddings.device # clip_text_embeddings.device

\* lines 139-144: every matrix lies on the device of the operands it came from
compute_st_similarities(clip_image_embeddings, clip_text_embeddings, st_embeddings) ==
    [ii_sim      |-> Tensor(cos_sim(clip_image_embeddings.data, clip_image_embeddings.data),
                            clip_image_embeddings.device),
     it_sim      |-> Tensor(cos_sim(clip_image_embeddings.data, clip_text_embeddings.data),
                            clip_image_embeddings.device),
     tt_sim_clip |-> Tensor(cos_sim(clip_text_embeddings.data, clip_text_embeddings.data),
                            clip_text_embeddings.device),
     tt_sim_st   |-> Tensor(cos_sim(st_embeddings.data, st_embeddings.data),
                            st_embeddings.device)]

\* mutant of ReconcileDevice: every matrix is moved to the device
ReconcileDeviceAll(s, device) ==
    [ii_sim      |-> To(s.ii_sim, device),
     it_sim      |-> To(s.it_sim, device),
     tt_sim_clip |-> To(s.tt_sim_clip, device),
     tt_sim_st   |-> To(s.tt_sim_st, device)]

\* lines 203-204: if tt_sim_st.device != device: tt_sim_st = tt_sim_st.to(device)
ReconcileDevice(s, device) ==
    IF s.tt_sim_st.device # device
    THEN [s EXCEPT !.tt_sim_st = To(s.tt_sim_st, device)]
    ELSE s

\* lines 173-175: MSELoss refuses operands on different devices
MseDevicesDiffer(s) ==
    \/ s.ii_sim.device # s.tt_sim_st.device
    \/ s.it_sim.device # s.tt_sim_st.device
    \/ s.tt_sim_clip.device # s.tt_sim_st.device

(***************************************************************************)
(* compute_accuracy (model_utils.py:209-225).  Indices are 1-based here,   *)
(* so the ground truth of row (column) i is i.                             *)
(***************************************************************************)
\* torch.argmax of a vector: the index of the first maximal entry in the
\* float order, a NaN counting as the maximum
RECURSIVE ArgMaxScan(_, _, _)
ArgMaxScan(s, k, best) ==
    IF k > Len(s) THEN best
    ELSE ArgMaxScan(s, k + 1,
             IF ~IsNaN(s[best]) /\ (IsNaN(s[k]) \/ Less(s[best], s[k])) THEN k ELSE best)

ArgMax(s) == ArgMaxScan(s, 2, 1)

\* line 222: (torch.argmax(images_logits, 1) == ground_truth).sum()
AccI(logits) == Cardinality({i \in 1..NRows(logits) : ArgMax(Row(logits, i)) = i})

\* mutant of AccT: the argmax taken along dim 1 again
AccTDim1(logits) == Cardinality({i \in 1..NRows(logits) : ArgMax(Row(logits, i)) = i})

\* line 223: (torch.argmax(images_logits, 0) == ground_truth).sum()
AccT(logits) == Cardinality({j \in 1..NCols(logits) : ArgMax(Col(logits, j)) = j})

\* line 225
compute_accuracy(images_logits, batch_size) ==
    Div(Div(Rat(AccI(images_logits) + AccT(images_logits)), Rat(2)), Rat(batch_size))

(***************************************************************************)
(* Results of a call.                                                      *)
(***************************************************************************)
NoResult == [kind |-> "none", val |-> <<>>]
Returned(v) == [kind |-> "value", val |-> v]
Raised(e) == [kind |-> "error", val |-> e]

(***************************************************************************)
(* Inputs.                                                                 *)
(***************************************************************************)
Dims == 1..MaxDim

\* the shapes (rows, columns) of the modelled matrices: axes of at most MaxDim
\* entries and at most MaxCells entries in all
Shapes == {sh \in Dims \X Dims : sh[1] * sh[2] <= MaxCells}

CostValues == {Rat(-1), Rat(0), Rat(1)}

CostMatrices == UNION {[1..sh[1] -> [1..sh[2] -> CostValues]] : sh \in Shapes}

\* with eps = 1/200 a cost of 1 underflows exp to 0 and a cost of -1 overflows it to Inf
EpsValues == {<<1, 1>>, <<1, 200>>}

\* marginals of length k: not supplied, the ramp v, 2v, ..., kv (all zero for
\* v = 0) and the one-hot vector 1, 0, ..., 0
Marginals(k) ==
    {None}
    \cup {[i \in 1..k |-> Rat(v * i)] : v \in 0..MaxMarginal}
    \cup {[i \in 1..k |-> IF i = 1 THEN Rat(1) ELSE Rat(0)]}

EmbValues == {Rat(-1), Rat(0), Rat(1)}

TeacherEmbValues == {Rat(0), Rat(1)}

LogitValues == {Rat(0), Rat(1)}

\* the permutation matrices of size n: entry (i, p[i]) is 1, the others are 0
PermutationMatrices(n) ==
    {[i \in 1..n |-> [j \in 1..n |-> IF p[i] = j THEN One ELSE Zero]] :
        p \in {f \in [1..n -> 1..n] : \A a, b \in 1..n : a # b => f[a] # f[b]}}

\* the square matrices of at most MaxCells entries over 0, 1, +Inf, -Inf and NaN
NonFiniteLogitMatrices ==
    UNION {[1..n -> [1..n -> LogitValues \cup {PosInf, NegInf, NaN}]] :
               n \in {d \in Dims : d * d <= MaxCells}}

\* every 0/1 matrix up to MaxLogitDim, the permutation matrices one size up
\* (the identity and the reversed diagonal among them), and the small
\* matrices with non-finite entries
LogitMatrices ==
    UNION {[1..n -> [1..n -> LogitValues]] : n \in 1..MaxLogitDim}
    \cup NonFiniteLogitMatrices
    \cup PermutationMatrices(MaxLogitDim + 1)

BatchSizes == 1..(MaxLogitDim + 1)

SimValues == {Rat(-1), Rat(1)}

\* same-shaped similarity matrices of at most MaxMseElems entries
MseShapes == {sh \in (1..MaxMseElems) \X (1..MaxMseElems) : sh[1] * sh[2] <= MaxMseElems}

\* the six accepted keywords and three that are not
ReductionInputs ==
    {"mean", "average", "avg", "sum", "add", "none", "invalid", "Mean", "total"}

\* embedding batches of embedding dimension d, of at most MaxCells entries
EmbeddingBatches(d) ==
    UNION {[1..b -> [1..d -> EmbValues]] : b \in {x \in Dims : x * d <= MaxCells}}

\* the batch sizes b of the teacher: its cost matrices are b x b
TeacherBatchSizes == {b \in Dims : b * b <= MaxCells}

CoeffValues == {Rat(1), Rat(2)}

Devices == {"cpu", "cuda"}

\* the shapes (batch, embedding dimension) of the batches given to compute_mse
CosShapes == {sh \in (1..MaxMseElems) \X (1..MaxMseElems) : sh[1] * sh[2] <= MaxMseElems}

CosValues == {Rat(0), Rat(1)}

\* embedding batches of one shape whose rows have a rational norm
CosBatches(sh) ==
    {x \in [1..sh[1] -> [1..sh[2] -> CosValues]] : \A i \in 1..sh[1] : HasRationalNorm(x[i])}

Init ==
    /\ pc = "idle"
    /\ fn = "none"
    /\ args = <<>>
    /\ q = <<>>
    /\ r_prob = <<>>
    /\ c_prob = <<>>
    /\ iter = 0
    /\ mse_tensor = <<>>
    /\ st_sims = <<>>
    /\ result = NoResult

(***************************************************************************)
(* sinkhorn as a process: entry (lines 25-41), the loop body in its two    *)
(* halves (lines 45-46 and 48-49), and the return (line 50).               *)
(***************************************************************************)
SinkhornCall ==
    /\ pc = "idle"
    /\ \E cost \in CostMatrices, eps \in EpsValues, niter \in 1..MaxIter, rank \in {2, 3} :
       \E r \in Marginals(NRows(cost)), c \in Marginals(NCols(cost)) :
        /\ fn' = "sinkhorn"
        /\ args' = [cost_mat |-> cost, eps |-> eps, niter |-> niter,
                    r_prob |-> r, c_prob |-> c, rank |-> rank]
        /\ q' = GlobalNormalize(ExpCost(cost, eps))
        /\ iter' = 0
        /\ UNCHANGED <<mse_tensor, st_sims>>
        /\ IF MarginalAssertFails(r)
           THEN /\ r_prob' = NormalizeMarginal(r)
                /\ c_prob' = <<>>
                /\ pc' = "error"
                /\ result' = Raised("AssertionError")
           ELSE IF MarginalAssertFails(c)
           THEN /\ r_prob' = TargetMarginal(r, NRows(cost))
                /\ c_prob' = NormalizeMarginal(c)
                /\ pc' = "error"
                /\ result' = Raised("AssertionError")
           ELSE /\ r_prob' = TargetMarginal(r, NRows(cost))
                /\ c_prob' = TargetMarginal(c, NCols(cost))
                /\ pc' = IF niter > 0 THEN "row" ELSE "ret"
                /\ result' = NoResult

SinkhornRowStep ==
    /\ pc = "row"
    /\ q' = RowStep(q, r_prob)
    /\ pc' = "col"
    /\ UNCHANGED <<fn, args, r_prob, c_prob, iter, mse_tensor, st_sims, result>>

SinkhornColStep ==
    /\ pc = "col"
    /\ q' = ColStep(q, c_prob)
    /\ iter' = iter + 1
    /\ pc' = IF iter + 1 < args.niter THEN "row" ELSE "ret"
    /\ UNCHANGED <<fn, args, r_prob, c_prob, mse_tensor, st_sims, result>>

SinkhornReturn ==
    /\ pc = "ret"
    /\ result' = Returned(FinalNormalize(q, args.rank))
    /\ pc' = "done"
    /\ UNCHANGED <<fn, args, q, r_prob, c_prob, iter, mse_tensor, st_sims>>

NextSinkhorn == SinkhornCall \/ SinkhornRowStep \/ SinkhornColStep \/ SinkhornReturn

SpecSinkhorn == Init /\ [][NextSinkhorn]_vars

(***************************************************************************)
(* compute_similarities and compute_teacher_targets as single calls.       *)
(***************************************************************************)
ComputeSimilaritiesCall ==
    /\ pc = "idle"
    /\ \E d \in 1..MaxEmbDim :
       \E i_emb \in EmbeddingBatches(d), t_emb \in EmbeddingBatches(d) :
        /\ fn' = "compute_similarities"
        /\ args' = [i_emb |-> i_emb, t_emb |-> t_emb]
        /\ result' = Returned(compute_similarities(i_emb, t_emb))
        /\ pc' = "done"
        /\ UNCHANGED <<q, r_prob, c_prob, iter, mse_tensor, st_sims>>

NextSimilarities == ComputeSimilaritiesCall

SpecSimilarities == Init /\ [][NextSimilarities]_vars

ComputeTeacherTargetsCall ==
    /\ pc = "idle"
    /\ \E d \in 1..MaxTeacherEmbDim, b \in TeacherBatchSizes :
       \E i_emb \in [1..b -> [1..d -> TeacherEmbValues]], t_emb \in [1..b -> [1..d -> TeacherEmbValues]] :
       \E ii_coeff \in CoeffValues, tt_coeff \in CoeffValues, sinkhorn_lambda \in EpsValues :
       \E sinkhorn_iter \in 1..MaxIter, remove_diag \in {Rat(0), Rat(1)}, sigmoid_target \in BOOLEAN :
        /\ fn' = "compute_teacher_targets"
        /\ args' = [i_emb |-> i_emb, t_emb |-> t_emb, ii_coeff |-> ii_coeff,
                    tt_coeff |-> tt_coeff, sinkhorn_lambda |-> sinkhorn_lambda,
                    sinkhorn_iter |-> sinkhorn_iter, remove_diag |-> remove_diag,
                    sigmoid_target |-> sigmoid_target]
        /\ result' = Returned(compute_teacher_targets(i_emb, t_emb, ii_coeff, tt_coeff,
                          sinkhorn_lambda, sinkhorn_iter, remove_diag, sigmoid_target))
        /\ pc' = "done"
        /\ UNCHANGED <<q, r_prob, c_prob, iter, mse_tensor, st_sims>>

NextTeacher == ComputeTeacherTargetsCall

SpecTeacher == Init /\ [][NextTeacher]_vars

(***************************************************************************)
(* compute_mse_similarities and compute_accuracy as single calls.          *)
(***************************************************************************)
ComputeMseSimilaritiesCall ==
    /\ pc = "idle"
    /\ \E sh \in MseShapes, reduction \in ReductionInputs :
       \E ii \in [1..sh[1] -> [1..sh[2] -> SimValues]], it \in [1..sh[1] -> [1..sh[2] -> SimValues]] :
       \E tt \in [1..sh[1] -> [1..sh[2] -> SimValues]], st \in [1..sh[1] -> [1..sh[2] -> SimValues]] :
        /\ fn' = "compute_mse_similarities"
        /\ args' = [image_image_similarities |-> ii, image_text_similarities |-> it,
                    text_text_similarities_clip |-> tt, text_text_similarities_st |-> st,
                    reduction |-> reduction]
        /\ IF reduction \notin REDUCTIONS
           THEN /\ result' = Raised("ValueError")
                /\ pc' = "error"
                /\ UNCHANGED mse_tensor
           ELSE /\ mse_tensor' = StackMse(ii, it, tt, st)
                /\ result' = Returned(ReduceMse(mse_tensor', reduction))
                /\ pc' = "done"
        /\ UNCHANGED <<q, r_prob, c_prob, iter, st_sims>>

NextMse == ComputeMseSimilaritiesCall

SpecMse == Init /\ [][NextMse]_vars

(***************************************************************************)
(* compute_mse as a process: the similarities (lines 200-201), the device  *)
(* reconciliation (lines 203-204) and the reduction (line 206).            *)
(***************************************************************************)
ComputeMseCall ==
    /\ pc = "idle"
    /\ \E shc \in CosShapes :
       \E shs \in {sh \in CosShapes : sh[1] = shc[1]} :
       \E i_emb \in CosBatches(shc), t_emb \in CosBatches(shc), s_emb \in CosBatches(shs) :
       \E i_dev \in Devices, t_dev \in Devices, s_dev \in Devices, device \in Devices :
        /\ fn' = "compute_mse"
        /\ args' = [clip_image_embeddings |-> Tensor(i_emb, i_dev),
                    clip_text_embeddings |-> Tensor(t_emb, t_dev),
                    st_embeddings |-> Tensor(s_emb, s_dev),
                    device |-> device]
        /\ IF StSimilaritiesFail(args'.clip_image_embeddings, args'.clip_text_embeddings)
           THEN /\ result' = Raised("RuntimeError")
                /\ pc' = "error"
                /\ UNCHANGED st_sims
           ELSE /\ st_sims' = compute_st_similarities(args'.clip_image_embeddings,
                               args'.clip_text_embeddings, args'.st_embeddings)
                /\ result' = NoResult
                /\ pc' = "move"
        /\ UNCHANGED <<q, r_prob, c_prob, iter, mse_tensor>>

ComputeMseMove ==
    /\ pc = "move"
    /\ st_sims' = ReconcileDevice(st_sims, args.device)
    /\ pc' = "reduce"
    /\ UNCHANGED <<fn, args, q, r_prob, c_prob, iter, mse_tensor, result>>

ComputeMseReduce ==
    /\ pc = "reduce"
    /\ IF MseDevicesDiffer(st_sims)
       THEN /\ result' = Raised("RuntimeError")
            /\ pc' = "error"
            /\ UNCHANGED mse_tensor
       ELSE /\ mse_tensor' = StackMse(st_sims.ii_sim.data, st_sims.it_sim.data,
                                 st_sims.tt_sim_clip.data, st_sims.tt_sim_st.data)
            /\ result' = Returned(ReduceMse(mse_tensor', "mean"))
            /\ pc' = "done"
    /\ UNCHANGED <<fn, args, q, r_prob, c_prob, iter, st_sims>>

NextComputeMse == ComputeMseCall \/ ComputeMseMove \/ ComputeMseReduce

SpecComputeMse == Init /\ [][NextComputeMse]_vars

ComputeAccuracyCall ==
    /\ pc = "idle"
    /\ \E images_logits \in LogitMatrices, batch_size \in BatchSizes :
        /\ fn' = "compute_accuracy"
        /\ args' = [images_logits |-> images_logits, batch_size |-> batch_size]
        /\ result' = Returned(compute_accuracy(images_logits, batch_size))
        /\ pc' = "done"
        /\ UNCHANGED <<q, r_prob, c_prob, iter, mse_tensor, st_sims>>

NextAccuracy == ComputeAccuracyCall

SpecAccuracy == Init /\ [][NextAccuracy]_vars

(***************************************************************************)
(* Every function of the module, one call per behaviour.                   *)
(***************************************************************************)
Next ==
    \/ NextSinkhorn
    \/ NextSimilarities
    \/ NextTeacher
    \/ NextMse
    \/ NextComputeMse
    \/ NextAccuracy

Spec == Init /\ [][Next]_vars

(***************************************************************************)
(* Predicates used to state the properties.                                *)
(***************************************************************************)
RowsSumToOne(m) == \A i \in 1..Len(m) : SumSeq(m[i]) = One

EntriesWithinUnit(m) ==
    \A i \in 1..Len(m) : \A j \in 1..Len(m[i]) : Leq(Rat(-1), m[i][j]) /\ Leq(m[i][j], One)

FinitePositiveRowSums(m) ==
    \A i \in 1..Len(m) : IsFinite(SumSeq(m[i])) /\ Less(Zero, SumSeq(m[i]))

AllFinite(m) == \A i \in 1..Len(m) : \A j \in 1..Len(m[i]) : IsFinite(m[i][j])

MatHasNaN(m) == \E i \in 1..Len(m) : \E j \in 1..Len(m[i]) : IsNaN(m[i][j])

ColumnSum(m, j) == SumSeq(Vec(Len(m), LAMBDA i : m[i][j]))

HasZeroRow(m) == \E i \in 1..Len(m) : SumSeq(m[i]) = Zero

HasZeroCol(m) == \E j \in 1..Len(m[1]) : ColumnSum(m, j) = Zero

\* a supplied marginal that, divided by its own sum, holds a NaN or an Inf
NormalizedNonFinite(p) ==
    p # None /\ \E i \in 1..Len(p) : ~IsFinite(Div(p[i], SumSeq(p)))

InSinkhorn == fn = "sinkhorn"

\* the exponentiated cost matrix of the current sinkhorn call
ExpMatrix == ExpCost(args.cost_mat, args.eps)

MarginalsPass == ~NormalizedNonFinite(args.r_prob) /\ ~NormalizedNonFinite(args.c_prob)

UniformCall2D == InSinkhorn /\ args.rank = 2 /\ args.r_prob = None /\ args.c_prob = None

(***************************************************************************)
(* C1.  compute_teacher_targets: for each of the two Sinkhorn outputs that *)
(* has finite, positive row sums, the matrix returned for it has every row *)
(* summing to 1 when sigmoid_target is False, and every entry in [-1, 1]   *)
(* when sigmoid_target is True.                                            *)
(***************************************************************************)
TeacherDone == fn = "compute_teacher_targets" /\ pc = "done"

TeacherSinkhornOutputs ==
    TeacherSinkhorn(args.i_emb, args.t_emb, args.ii_coeff, args.tt_coeff,
                    args.sinkhorn_lambda, args.sinkhorn_iter, args.remove_diag)

C1_TeacherTargets ==
    TeacherDone =>
        \A k \in 1..2 :
            FinitePositiveRowSums(TeacherSinkhornOutputs[k]) =>
                IF args.sigmoid_target
                THEN EntriesWithinUnit(result.val[k])
                ELSE RowsSumToOne(result.val[k])

\* a sigmoid target with an entry strictly inside (-1, 1), from outputs with
\* finite, positive row sums
C1_Witness ==
    /\ TeacherDone
    /\ args.sigmoid_target
    /\ \A k \in 1..2 : FinitePositiveRowSums(TeacherSinkhornOutputs[k])
    /\ \E i \in 1..Len(result.val[1]) : \E j \in 1..Len(result.val[1]) :
           Less(Rat(-1), result.val[1][i][j]) /\ Less(result.val[1][i][j], One)

(***************************************************************************)
(* C2.  sinkhorn on a 2-D cost matrix with no marginal supplied.           *)
(***************************************************************************)
\* C2 as claimed: for every 2-D cost matrix, every row of the returned matrix sums to 1
C2_Original ==
    (UniformCall2D /\ pc = "done") => RowsSumToOne(result.val)

\* every row of the matrix holds a NaN
EveryRowHasNaN(m) == \A i \in 1..Len(m) : \E j \in 1..Len(m[i]) : IsNaN(m[i][j])

\* C2 as amended: when the balanced matrix q that reaches the final normalization
\* of line 50 has only finite entries, every row of the returned matrix sums to 1;
\* otherwise (an earlier division met a zero or a non-finite sum) every row of the
\* returned matrix holds a NaN.  The condition is on q itself, whatever made the
\* earlier division fail: an entry of exp(-cost/eps) at 0 or Inf, or a quotient
\* or a total of line 26 leaving the range of float32.
C2_RowsSumToOne ==
    (UniformCall2D /\ pc = "done") =>
        IF AllFinite(q) THEN RowsSumToOne(result.val) ELSE EveryRowHasNaN(result.val)

\* a 2 x 2 call of two iterations whose balanced matrix is finite and whose
\* returned rows are not uniform
C2_Witness ==
    /\ UniformCall2D /\ pc = "done"
    /\ args.niter = 2
    /\ Len(result.val) = 2 /\ Len(result.val[1]) = 2
    /\ AllFinite(q)
    /\ result.val[1][1] # result.val[1][2]
    /\ RowsSumToOne(result.val)

(***************************************************************************)
(* C3.  The final step of sinkhorn.                                        *)
(***************************************************************************)
\* C3 as claimed: for every rank, the 2-D one included, every entry of the balanced
\* matrix is divided by the sum over axis -2 (its column sum)
C3_Original ==
    (InSinkhorn /\ pc = "done") =>
        \A i \in 1..Len(q) : \A j \in 1..Len(q[1]) :
            result.val[i][j] = Div(q[i][j], ColumnSum(q, j))

\* C3 as amended: every entry is divided by the sum over axis 1 counted from the
\* front: the row sum (axis -1) for a 2-D input, the column sum (axis -2) for a 3-D one
C3_FinalStepAxisOne ==
    (InSinkhorn /\ pc = "done") =>
        \A i \in 1..Len(q) : \A j \in 1..Len(q[1]) :
            result.val[i][j] =
                IF args.rank = 2 THEN Div(q[i][j], SumSeq(q[i]))
                ELSE Div(q[i][j], ColumnSum(q, j))

C3_Witness ==
    /\ InSinkhorn /\ pc = "done" /\ args.rank = 2
    /\ AllFinite(q) /\ AllFinite(result.val)
    /\ \E i \in 1..Len(q) : \E j \in 1..Len(q[1]) :
           /\ result.val[i][j] = Div(q[i][j], SumSeq(q[i]))
           /\ result.val[i][j] # Div(q[i][j], ColumnSum(q, j))

(***************************************************************************)
(* C4.  compute_accuracy returns (rows whose first maximum is on the       *)
(* diagonal + columns whose first maximum is on the diagonal) / 2 /        *)
(* batch_size: 1 for the identity with batch_size = N, 0 when no row and   *)
(* no column has its argmax on the diagonal.                               *)
(***************************************************************************)
AccuracyDone == fn = "compute_accuracy" /\ pc = "done"

\* entry k of the vector s is its first maximum in the float order; when s
\* holds a NaN, torch.argmax takes the first NaN
FirstMaxAt(s, k) ==
    IF \E j \in 1..Len(s) : IsNaN(s[j])
    THEN IsNaN(s[k]) /\ \A j \in 1..(k - 1) : ~IsNaN(s[j])
    ELSE /\ \A j \in 1..Len(s) : Leq(s[j], s[k])
         /\ \A j \in 1..(k - 1) : Less(s[j], s[k])

RowHits(l) == {i \in 1..Len(l) : FirstMaxAt(l[i], i)}

ColHits(l) == {j \in 1..Len(l) : FirstMaxAt(Vec(Len(l), LAMBDA i : l[i][j]), j)}

IsIdentity(l) ==
    \A i \in 1..Len(l) : \A j \in 1..Len(l) : l[i][j] = IF i = j THEN One ELSE Zero

IsReversedDiagonal(l) ==
    \A i \in 1..Len(l) : \A j \in 1..Len(l) :
        l[i][j] = IF i + j = Len(l) + 1 THEN One ELSE Zero

C4_Accuracy ==
    AccuracyDone =>
        LET l == args.images_logits
            hits == Cardinality(RowHits(l)) + Cardinality(ColHits(l))
        IN  /\ result.val = Norm(hits, 2 * args.batch_size)
            /\ (IsIdentity(l) /\ args.batch_size = Len(l)) => result.val = One
            /\ (RowHits(l) = {} /\ ColHits(l) = {}) => result.val = Zero

\* the 4x4 reversed diagonal with batch_size = 4
C4_Witness ==
    /\ AccuracyDone
    /\ Len(args.images_logits) = 4 /\ args.batch_size = 4
    /\ IsReversedDiagonal(args.images_logits)
    /\ result.val = Zero

(***************************************************************************)
(* C5.  compute_mse_similarities: reduction "none" returns                 *)
(* [mse(img_img, st), mse(img_txt, st), mse(txt_txt_clip, st)] in that     *)
(* order; "mean", "average" and "avg" return the arithmetic mean of the    *)
(* three.                                                                  *)
(***************************************************************************)
MseDone == fn = "compute_mse_similarities" /\ pc = "done"

\* the mean over all entries of the squared differences of two same-shaped matrices
MeanSquaredDiff(a, b) ==
    LET sq == Mat(Len(a), Len(a[1]), LAMBDA i, j :
                  Mul(Sub(a[i][j], b[i][j]), Sub(a[i][j], b[i][j])))
    IN  Div(SumSeq(Vec(Len(a), LAMBDA i : SumSeq(sq[i]))), Rat(Len(a) * Len(a[1])))

ExpectedMse ==
    <<MeanSquaredDiff(args.image_image_similarities, args.text_text_similarities_st),
      MeanSquaredDiff(args.image_text_similarities, args.text_text_similarities_st),
      MeanSquaredDiff(args.text_text_similarities_clip, args.text_text_similarities_st)>>

MeanOfThree(v) == Div(Add(Add(v[1], v[2]), v[3]), Rat(3))

SumOfThree(v) == Add(Add(v[1], v[2]), v[3])

C5_MseReduction ==
    MseDone =>
        /\ args.reduction = "none" => result.val = ExpectedMse
        /\ args.reduction \in {"mean", "average", "avg"} => result.val = MeanOfThree(ExpectedMse)

\* "average" over three different MSE values
C5_Witness ==
    /\ MseDone
    /\ args.reduction = "average"
    /\ ExpectedMse[1] # ExpectedMse[2]
    /\ ExpectedMse[2] # ExpectedMse[3]
    /\ ExpectedMse[1] # ExpectedMse[3]
    /\ result.val = MeanOfThree(ExpectedMse)

(***************************************************************************)
(* C6.  compute_mse_similarities raises exactly when reduction is not one  *)
(* of mean, average, avg, sum, add, none; it then has computed no MSE and  *)
(* returns no value.  For each of the six it returns a value.              *)
(***************************************************************************)
C6_ReductionCheck ==
    fn = "compute_mse_similarities" =>
        LET allowed == args.reduction \in {"mean", "average", "avg", "sum", "add", "none"}
        IN  /\ ~allowed => (pc = "error" /\ result = Raised("ValueError") /\ mse_tensor = <<>>)
            /\ allowed => (pc = "done" /\ result.kind = "value" /\ mse_tensor = ExpectedMse)

\* a reduction that differs from an allowed one by case only
C6_Witness ==
    /\ fn = "compute_mse_similarities"
    /\ args.reduction = "Mean"
    /\ pc = "error"
    /\ result.kind = "error"

(***************************************************************************)
(* C7.  compute_mse_similarities with reduction "sum" or "add" returns the *)
(* arithmetic mean of the three MSE values, not their sum.                 *)
(***************************************************************************)
C7_SumReturnsMean ==
    (MseDone /\ args.reduction \in {"sum", "add"}) =>
        /\ result.val = MeanOfThree(ExpectedMse)
        /\ SumOfThree(ExpectedMse) # Zero => result.val # SumOfThree(ExpectedMse)

C7_Witness ==
    /\ MseDone
    /\ args.reduction = "sum"
    /\ SumOfThree(ExpectedMse) # Zero
    /\ result.val = MeanOfThree(ExpectedMse)

(***************************************************************************)
(* C8.  sinkhorn raises, before any balancing iteration and without        *)
(* returning a matrix, when a supplied marginal divided by its sum holds a *)
(* NaN or an Inf; when every supplied marginal normalizes to finite values *)
(* it raises nothing.                                                      *)
(***************************************************************************)
C8_MarginalCheck ==
    InSinkhorn =>
        IF NormalizedNonFinite(args.r_prob) \/ NormalizedNonFinite(args.c_prob)
        THEN /\ pc = "error"
             /\ result = Raised("AssertionError")
             /\ iter = 0
             /\ q = GlobalNormalize(ExpMatrix)
        ELSE /\ pc # "error"
             /\ result.kind # "error"

\* the row marginal passes and the all-zero column marginal raises
C8_Witness ==
    /\ InSinkhorn
    /\ args.r_prob # None /\ ~NormalizedNonFinite(args.r_prob)
    /\ NormalizedNonFinite(args.c_prob)
    /\ pc = "error"
    /\ iter = 0

(***************************************************************************)
(* C9.  sinkhorn on an exponentiated cost matrix with a row or column      *)
(* whose sum is zero.                                                      *)
(***************************************************************************)
\* C9 as claimed: no error is raised and the returned matrix contains NaN
C9_Original ==
    (InSinkhorn /\ (HasZeroRow(ExpMatrix) \/ HasZeroCol(ExpMatrix))) =>
        /\ pc # "error"
        /\ pc = "done" => MatHasNaN(result.val)

\* C9 as amended: when, besides, every supplied marginal passes its check, no error
\* is raised, from the end of the first iteration on the balanced matrix holds a
\* NaN, and the returned matrix contains NaN
C9_SilentNaN ==
    (InSinkhorn /\ (HasZeroRow(ExpMatrix) \/ HasZeroCol(ExpMatrix)) /\ MarginalsPass) =>
        /\ pc # "error"
        /\ result.kind # "error"
        /\ iter >= 1 => MatHasNaN(q)
        /\ pc = "done" => MatHasNaN(result.val)

\* a zero column and no zero row: the NaN appears in the column step
C9_Witness ==
    /\ InSinkhorn /\ pc = "done"
    /\ HasZeroCol(ExpMatrix) /\ ~HasZeroRow(ExpMatrix) /\ AllFinite(ExpMatrix)
    /\ result.kind = "value"
    /\ MatHasNaN(result.val)

(***************************************************************************)
(* C10.  compute_similarities: sim_ii = I*I^T and sim_tt = T*T^T are       *)
(* symmetric, sim_it = I*T^T, and sim_ti is the transpose of sim_it.       *)
(***************************************************************************)
SimilaritiesDone == fn = "compute_similarities" /\ pc = "done"

\* the dot product of two embeddings
Dot(x, y) == SumSeq(Vec(Len(x), LAMBDA k : Mul(x[k], y[k])))

C10_Similarities ==
    SimilaritiesDone =>
        LET I == args.i_emb
            T == args.t_emb
            r == result.val
        IN  /\ \A i, j \in 1..Len(I) :
                   r.sim_ii[i][j] = Dot(I[i], I[j]) /\ r.sim_ii[i][j] = r.sim_ii[j][i]
            /\ \A i, j \in 1..Len(T) :
                   r.sim_tt[i][j] = Dot(T[i], T[j]) /\ r.sim_tt[i][j] = r.sim_tt[j][i]
            /\ Len(r.sim_it) = Len(I) /\ Len(r.sim_ti) = Len(T)
            /\ \A i \in 1..Len(I) : \A j \in 1..Len(T) :
                   r.sim_it[i][j] = Dot(I[i], T[j]) /\ r.sim_ti[j][i] = r.sim_it[i][j]

\* batches of different sizes, sim_it with two different entries
C10_Witness ==
    /\ SimilaritiesDone
    /\ Len(args.i_emb) = 2 /\ Len(args.t_emb) = 1 /\ Len(args.i_emb[1]) = 2
    /\ result.val.sim_it[1][1] # result.val.sim_it[2][1]
    /\ result.val.sim_ii[1][2] # Zero
    /\ result.val.sim_ti[1][2] = result.val.sim_it[2][1]


(***************************************************************************)
(* C11.  compute_mse: device reconciliation moves only the semantic        *)
(* text-text similarity matrix.  Once the four matrices are computed, the  *)
(* image-image, image-text and CLIP text-text matrices stay on the device  *)
(* they were computed on, with the data they were computed with, at every  *)
(* later position of the call; the semantic text-text matrix is on the     *)
(* device of its embeddings before the reconciliation and on the target    *)
(* device from the reconciliation on, before the reduction, with its data  *)
(* unchanged.                                                              *)
(***************************************************************************)
InComputeMse == fn = "compute_mse"

\* the four matrices as compute_st_similarities returned them
ComputedSims ==
    compute_st_similarities(args.clip_image_embeddings, args.clip_text_embeddings,
                            args.st_embeddings)

AfterReconciliation == InComputeMse /\ st_sims # <<>> /\ pc \in {"reduce", "done", "error"}

C11_OnlySemanticMoved ==
    (InComputeMse /\ st_sims # <<>>) =>
        /\ st_sims.ii_sim = ComputedSims.ii_sim
        /\ st_sims.it_sim = ComputedSims.it_sim
        /\ st_sims.tt_sim_clip = ComputedSims.tt_sim_clip
        /\ st_sims.ii_sim.device = args.clip_image_embeddings.device
        /\ st_sims.tt_sim_clip.device = args.clip_text_embeddings.device
        /\ st_sims.tt_sim_st.data = ComputedSims.tt_sim_st.data
        /\ (pc = "move" => st_sims.tt_sim_st.device = args.st_embeddings.device)
        /\ (AfterReconciliation => st_sims.tt_sim_st.device = args.device)

\* a call whose semantic matrix was computed on another device than the
\* target, was moved there, and whose reduction returned a value
C11_Witness ==
    /\ InComputeMse
    /\ pc = "done"
    /\ result.kind = "value"
    /\ args.st_embeddings.device # args.device
    /\ st_sims.tt_sim_st.device = args.device
    /\ st_sims.ii_sim.device = args.clip_image_embeddings.device
    /\ NRows(args.st_embeddings.data) > 1


(***************************************************************************)
(* C12.  sinkhorn: in every iteration, a row step entered with a q of      *)
(* finite entries and no zero row sum leaves every row of q summing to the *)
(* target row marginal (the normalized r_prob entry, or 1/M when none is   *)
(* supplied), and a column step entered with a q of finite entries and no  *)
(* zero column sum leaves every column of q summing to the target column   *)
(* marginal (the normalized c_prob entry, or 1/N when none is supplied).   *)
(* As first stated, for every exponentiated matrix without a zero row or   *)
(* column sum, it fails: an overflowed entry makes q NaN, and a marginal   *)
(* with a zero entry empties a row or column that the next iteration       *)
(* divides by zero.                                                        *)
(***************************************************************************)
TargetRowMarginal == TargetMarginal(args.r_prob, NRows(args.cost_mat))

TargetColMarginal == TargetMarginal(args.c_prob, NCols(args.cost_mat))

\* the sinkhorn loop stands just after a row step
AfterRowStep == InSinkhorn /\ pc = "col"

\* the sinkhorn loop stands at the end of an iteration
AfterColStep == InSinkhorn /\ iter >= 1 /\ pc \in {"row", "ret", "done"}

C12_Original ==
    (InSinkhorn /\ ~HasZeroRow(ExpMatrix) /\ ~HasZeroCol(ExpMatrix)) =>
        /\ (AfterRowStep => RowSums(q) = TargetRowMarginal)
        /\ (AfterColStep => ColSums(q) = TargetColMarginal)

C12_StepMarginals ==
    [][/\ (InSinkhorn /\ pc = "row" /\ AllFinite(q) /\ ~HasZeroRow(q))
            => (pc' = "col" /\ RowSums(q') = TargetRowMarginal)
       /\ (InSinkhorn /\ pc = "col" /\ AllFinite(q) /\ ~HasZeroCol(q))
            => (iter' = iter + 1 /\ ColSums(q') = TargetColMarginal)]_vars

\* the end of the second iteration of a call with both marginals supplied
\* and not uniform: the columns carry the column marginal, the rows no
\* longer carry the row marginal
C12_Witness ==
    /\ InSinkhorn
    /\ pc = "ret"
    /\ iter = 2
    /\ args.r_prob # None
    /\ args.c_prob # None
    /\ NRows(q) = 2
    /\ NCols(q) = 2
    /\ AllFinite(q)
    /\ TargetColMarginal[1] # TargetColMarginal[2]
    /\ TargetRowMarginal[1] # TargetRowMarginal[2]
    /\ ColSums(q) = TargetColMarginal
    /\ RowSums(q) # TargetRowMarginal

====
